---- MODULE Spec2Model ----
(***************************************************************************)
(* Model of the real-time chat transport of synergazing_backend:           *)
(* ChatController (connection registry, per-connection session, message   *)
(* dispatch, broadcast) on top of ChatService (the chat store).            *)
(*                                                                         *)
(* One session per websocket connection runs HandleWebSocket.  Every step  *)
(* of a session that touches state shared with other sessions (the         *)
(* registry map, a socket, the database) is one action, so that sessions   *)
(* interleave between any two such steps as goroutines do.                 *)
(***************************************************************************)
EXTENDS Integers, Sequences, FiniteSets, TLC

\* ------------------------------------------------------------------ bounds
MaxFrames == 1       \* inbound frames read during a run, over all sessions
MaxSeqFrames == 2    \* the same, in the runs of two sessions that exchange frames
MaxReqs == 2         \* REST requests that call GetOrCreateChat during a run
MaxOps == 2          \* ChatService calls made outside a session during a run

\* --------------------------------------------------------------- constants
NoConn == 0          \* "no entry" result of a registry lookup (exists = false)

\* The websocket connections opened during a run (*websocket.Conn values).
Conns == {1, 2}

\* ------------------------------------------------------ handshake inputs
\* user_id query parameter, as the string of characters the client sent.
UserIdStrs ==
    { <<>>, <<"x">>, <<"5">>, <<"7">>,
      <<"4","2","9","4","9","6","7","2","9","6">> }

\* token query parameter ("" = absent).
Tokens == { "", "bad", "jwt5" }

Queries == [user_id : UserIdStrs, token : Tokens]

DigitVal == [ch \in {"0","1","2","3","4","5","6","7","8","9"} |->
               CASE ch = "0" -> 0 [] ch = "1" -> 1 [] ch = "2" -> 2
                 [] ch = "3" -> 3 [] ch = "4" -> 4 [] ch = "5" -> 5
                 [] ch = "6" -> 6 [] ch = "7" -> 7 [] ch = "8" -> 8
                 [] ch = "9" -> 9]

\* Decimal digits of 2^32 - 1, the largest value ParseUint(s, 10, 32) accepts.
MaxUintDigits == <<4, 2, 9, 4, 9, 6, 7, 2, 9, 5>>

RECURSIVE StripZeros(_)
StripZeros(ds) ==
    IF Len(ds) > 1 /\ ds[1] = 0 THEN StripZeros(Tail(ds)) ELSE ds

RECURSIVE DigitsLeq(_, _)
\* ds <= es for two digit sequences of the same length.
DigitsLeq(ds, es) ==
    IF ds = <<>> THEN TRUE
    ELSE IF ds[1] < es[1] THEN TRUE
    ELSE IF ds[1] > es[1] THEN FALSE
    ELSE DigitsLeq(Tail(ds), Tail(es))

RECURSIVE DigitsValue(_, _)
DigitsValue(ds, acc) ==
    IF ds = <<>> THEN acc ELSE DigitsValue(Tail(ds), acc * 10 + ds[1])

\* strconv.ParseUint(s, 10, 32): a syntax error for the empty string or any
\* character that is not a decimal digit, a range error above 2^32 - 1.
ParseUint(s) ==
    IF s = <<>> \/ \E i \in 1..Len(s) : s[i] \notin DOMAIN DigitVal
    THEN [err |-> TRUE, val |-> 0]
    ELSE LET ds == StripZeros([i \in 1..Len(s) |-> DigitVal[s[i]]])
         IN IF Len(ds) > Len(MaxUintDigits)
               \/ (Len(ds) = Len(MaxUintDigits) /\ ~DigitsLeq(ds, MaxUintDigits))
            THEN [err |-> TRUE, val |-> 0]
            ELSE [err |-> FALSE, val |-> DigitsValue(ds, 0)]

\* helper.VerifyJWTToken: the identity a token asserts, or an error.
VerifyJWTToken(token) ==
    IF token = "jwt5" THEN [err |-> FALSE, UserID |-> 5]
    ELSE [err |-> TRUE, UserID |-> 0]

\* Authenticate with a fault: the identity the token asserts is not compared
\* with user_id.
AuthenticateNoMismatch(q) ==
    IF q.user_id = <<>> THEN [ok |-> FALSE, uid |-> 0]
    ELSE IF ParseUint(q.user_id).err THEN [ok |-> FALSE, uid |-> 0]
    ELSE IF q.token # "" /\ VerifyJWTToken(q.token).err
         THEN [ok |-> FALSE, uid |-> 0]
    ELSE [ok |-> TRUE, uid |-> ParseUint(q.user_id).val]

\* Authenticate with a fault: the error of ParseUint is ignored
\* (userID, _ := strconv.ParseUint(...)).
AuthenticateNoParseCheck(q) ==
    IF q.user_id = <<>> THEN [ok |-> FALSE, uid |-> 0]
    ELSE IF q.token # "" /\ VerifyJWTToken(q.token).err
         THEN [ok |-> FALSE, uid |-> 0]
    ELSE IF q.token # "" /\ VerifyJWTToken(q.token).UserID # ParseUint(q.user_id).val
         THEN [ok |-> FALSE, uid |-> 0]
    ELSE [ok |-> TRUE, uid |-> ParseUint(q.user_id).val]

\* The handshake checks of HandleWebSocket: the session is accepted (ok) with
\* currentUserID = uid, or the connection is closed.
Authenticate(q) ==
    IF q.user_id = <<>> THEN [ok |-> FALSE, uid |-> 0]
    ELSE IF ParseUint(q.user_id).err THEN [ok |-> FALSE, uid |-> 0]
    ELSE IF q.token # "" /\ VerifyJWTToken(q.token).err
         THEN [ok |-> FALSE, uid |-> 0]
    ELSE IF q.token # "" /\ VerifyJWTToken(q.token).UserID # ParseUint(q.user_id).val
         THEN [ok |-> FALSE, uid |-> 0]
    ELSE [ok |-> TRUE, uid |-> ParseUint(q.user_id).val]

\* Every id a session can be registered under.
UserIds == { ParseUint(s).val : s \in { t \in UserIdStrs : ~ParseUint(t).err } }

\* ---------------------------------------------------------- inbound frames
ChatIds == {0, 1, 2}
Contents == {"", "hi"}

\* WebSocketMessage as decoded by ReadJSON (absent fields are zero values).
Frames ==
    { [type |-> "ping", chat_id |-> 0, content |-> ""],
      [type |-> "typing", chat_id |-> 0, content |-> ""] }
    \cup [type : {"send_message"}, chat_id : ChatIds, content : Contents]
    \cup [type : {"join_chat", "mark_read"}, chat_id : ChatIds, content : {""}]

NoFrame == [type |-> "", chat_id |-> 0, content |-> ""]

\* ------------------------------------------------------------- REST callers
\* The requests of POST /chat (GetOrCreateChat endpoint), one call each.
Reqs == 1..MaxReqs

\* The users that callers of the ChatService methods pass as arguments: the
\* two of the chat that exists from the start, and one without any chat.
StoreUsers == {5, 7, 9}

\* The users REST callers of GetOrCreateChat act for and name as the other
\* participant.
GocUsers == {5, 9}

\* A request that has not called GetOrCreateChat yet.
NoReq == [pc |-> "idle", user1ID |-> 0, user2ID |-> 0, chat |-> 0,
          err |-> FALSE, created |-> FALSE, queries |-> 0]

\* ctrl.mutex is not held by the session.
NoLock == [mode |-> "", then |-> ""]

\* No ChatService call made outside a session yet.
NoOp == [n |-> 0, op |-> "", chatID |-> 0, userID |-> 0, content |-> "",
         err |-> FALSE]

VARIABLES
    connections,    \* ctrl.connections: user id -> connection (NoConn: no entry)
    chats,          \* chats table: chat id -> <<user1_id, user2_id>>
    messages,       \* messages table: message id -> row
    query,          \* per connection: the handshake query parameters
    pc,             \* per connection: position of its session in HandleWebSocket
    currentUserID,  \* per session: currentUserID
    msg,            \* per session: the frame being handled (the last one read)
    nread,          \* per session: number of frames read so far
    outMsg,         \* per session: argument msg.Type of the running sendToUser
    conn,           \* per session: conn looked up by sendToUser / broadcastToChat
                    \*   (kept until the session's next read)
    targets,        \* per session: targets of the running broadcastToChat
    idx,            \* per session: index of the broadcast loop
    closes,         \* per connection: number of Close() calls made on it
    broken,         \* per connection: a write on it has failed (sticky)
    sent,           \* per connection: every WriteJSON attempted on it, in order
    outcome,        \* per session: how far the handler of the current frame got
    calls,          \* per session: ChatStore calls made for the current frame
    regMut,         \* per session: registry mutations made for the current frame
    bc,             \* per session: lookups of the current frame's broadcast
    response,       \* per session: message id of the MessageResponse (0: none)
    req,            \* per REST request: the locals of its GetOrCreateChat call
    lastOp,         \* the last ChatService call made outside a session
    lock,           \* per session: the mode in which it holds ctrl.mutex, and
                    \*   where it goes on after unlocking
    prev            \* per session: the type of the frame handled before msg

vars == <<connections, chats, messages, query, pc, currentUserID, msg, nread,
          outMsg, conn, targets, idx, closes, broken, sent, outcome, calls,
          regMut, bc, response, req, lastOp,
          lock, prev>>

\* NewChatController: an empty registry.  The database holds the given
\* chats (created earlier through GetOrCreateChat) and no message.
InitWith(rows) ==
    /\ connections = [u \in UserIds |-> NoConn]
    /\ chats = rows
    /\ messages = <<>>
    /\ query = [c \in Conns |-> [user_id |-> <<>>, token |-> ""]]
    /\ pc = [c \in Conns |-> "new"]
    /\ currentUserID = [c \in Conns |-> 0]
    /\ msg = [c \in Conns |-> NoFrame]
    /\ nread = [c \in Conns |-> 0]
    /\ outMsg = [c \in Conns |-> ""]
    /\ conn = [c \in Conns |-> NoConn]
    /\ targets = [c \in Conns |-> <<>>]
    /\ idx = [c \in Conns |-> 0]
    /\ closes = [c \in Conns |-> 0]
    /\ broken = [c \in Conns |-> FALSE]
    /\ sent = [c \in Conns |-> <<>>]
    /\ outcome = [c \in Conns |-> ""]
    /\ calls = [c \in Conns |-> 0]
    /\ regMut = [c \in Conns |-> 0]
    /\ bc = [c \in Conns |-> <<>>]
    /\ response = [c \in Conns |-> 0]
    /\ req = [r \in Reqs |-> NoReq]
    /\ lastOp = NoOp
    /\ lock = [c \in Conns |-> NoLock]
    /\ prev = [c \in Conns |-> ""]

\* The database holds the chat of users 5 and 7.
Init == InitWith(<< <<5, 7>> >>)

\* ------------------------------------------------------------ the sockets
\* The states of a session that the spec calls Active (authenticated, in or
\* before its read loop) and Closing (the deferred cleanup is running).
ActivePcs == {"register", "stu_lookup", "stu_write", "stu_delete", "stu_close",
              "read", "sm_store", "jc_store", "mr_store",
              "bc_parts", "bc_lookup", "bc_write"}
Active(c) ==
    IF pc[c] = "unlock" THEN lock[c].then \in ActivePcs ELSE pc[c] \in ActivePcs
Closing(c) ==
    IF pc[c] = "unlock" THEN lock[c].then = "cl_close"
    ELSE pc[c] \in {"cl_delete", "cl_close"}

\* conn.WriteJSON: fails on a connection that was closed or whose earlier
\* write failed; otherwise succeeds or fails (peer gone, write deadline).
WriteOutcomes(h) ==
    IF closes[h] > 0 \/ broken[h] THEN {FALSE} ELSE {TRUE, FALSE}

\* The record of one WriteJSON(msg) on a connection: the event type, the
\* session that wrote it, the frame of that session that caused it (0: the
\* welcome message), the message id carried by a new_message, the result.
Written(type, by, frame, id, ok) ==
    [type |-> type, by |-> by, frame |-> frame, id |-> id, ok |-> ok]

\* ------------------------------------------------------------- ctrl.mutex
\* sync.RWMutex: Lock() needs the mutex free, RLock() needs it free of a
\* writer.  With fine = FALSE the locked section is taken as one step of its
\* own and the mutex is left out.
CanLock(mode, fine) ==
    IF ~fine THEN TRUE
    ELSE IF mode = "W" THEN \A d \in Conns : lock[d].mode = ""
    ELSE \A d \in Conns : lock[d].mode # "W"

\* Critical with a fault: the mutex is not released after the map operation
\* (the unlock is missing), and the session goes on holding it.
CriticalNoUnlock(c, mode, next, fine) ==
    /\ CanLock(mode, fine)
    /\ pc' = [pc EXCEPT ![c] = next]
    /\ lock' = IF fine THEN [lock EXCEPT ![c] = [mode |-> mode, then |-> next]]
               ELSE lock

\* Lines 110-112, 116-118, 249-251, 260-262, 290-292: the map operation of
\* session c runs with the mutex held in the given mode, the unlock follows
\* as the session's next step, and then the session goes on at next.
Critical(c, mode, next, fine) ==
    /\ CanLock(mode, fine)
    /\ IF fine
       THEN /\ pc' = [pc EXCEPT ![c] = "unlock"]
            /\ lock' = [lock EXCEPT ![c] = [mode |-> mode, then |-> next]]
       ELSE /\ pc' = [pc EXCEPT ![c] = next]
            /\ lock' = lock

\* Lines 112, 118, 251, 262, 292: Unlock() / RUnlock().
Unlock(c) ==
    /\ pc[c] = "unlock"
    /\ pc' = [pc EXCEPT ![c] = lock[c].then]
    /\ lock' = [lock EXCEPT ![c] = NoLock]
    /\ UNCHANGED <<connections, chats, messages, query, currentUserID, msg,
                   nread, outMsg, conn, targets, idx, closes, broken, sent,
                   outcome, calls, regMut, bc, response, req, lastOp, prev>>

\* ------------------------------------------------------- HandleWebSocket
\* Lines 60-107: the upgraded connection c arrives with query q; a failed
\* check closes it before a session exists ("rejected").  Connections are opened in the order of their numbers.
Handshake(c, queries) ==
    /\ pc[c] = "new"
    /\ IF c = 1 THEN TRUE ELSE pc[c - 1] # "new"
    /\ \E q \in queries :
         /\ query' = [query EXCEPT ![c] = q]
         /\ IF Authenticate(q).ok
            THEN /\ pc' = [pc EXCEPT ![c] = "register"]
                 /\ currentUserID' = [currentUserID EXCEPT ![c] = Authenticate(q).uid]
                 /\ closes' = closes
            ELSE /\ pc' = [pc EXCEPT ![c] = "rejected"]
                 /\ closes' = [closes EXCEPT ![c] = @ + 1]
                 /\ currentUserID' = currentUserID
    /\ UNCHANGED <<connections, chats, messages, msg, nread, outMsg, conn,
                   targets, idx, broken, sent, outcome, calls, regMut, bc, response,
                   req, lastOp, lock, prev>>

\* WithEntry with a fault: the map is replaced by one holding only the new
\* entry (the update of an unsynchronised writer wins over the other's).
OnlyEntry(m, u, c) == [v \in DOMAIN m |-> IF v = u THEN c ELSE NoConn]

\* Line 111: ctrl.connections[currentUserID] = c, under the write lock.
WithEntry(m, u, c) == [m EXCEPT ![u] = c]

\* Lines 109-129: store the connection, then call sendToUser(welcomeMsg).
Register(c, fine) ==
    /\ pc[c] = "register"
    /\ connections' = WithEntry(connections, currentUserID[c], c)
    /\ outMsg' = [outMsg EXCEPT ![c] = "connected"]
    /\ Critical(c, "W", "stu_lookup", fine)
    /\ UNCHANGED <<chats, messages, query, currentUserID, msg, nread, conn,
                   targets, idx, closes, broken, sent, outcome, calls, regMut, bc, response,
                   req, lastOp, prev>>

\* ------------------------------------------------------------ sendToUser
\* Lines 249-253: look the user's connection up; nothing is sent if absent.
SendToUserLookup(c, fine) ==
    /\ pc[c] = "stu_lookup"
    /\ conn' = [conn EXCEPT ![c] = connections[currentUserID[c]]]
    /\ Critical(c, "R",
                IF connections[currentUserID[c]] # NoConn THEN "stu_write" ELSE "read",
                fine)
    /\ UNCHANGED <<connections, chats, messages, query, currentUserID, msg,
                   nread, outMsg, targets, idx, closes, broken, sent, outcome,
                   calls, regMut, bc, response,
                   req, lastOp, prev>>

\* AfterSendWrite with a fault: the connection is closed without its entry
\* having been removed.
AfterSendWriteNoDelete(ok) == IF ok THEN "read" ELSE "stu_close"

\* Where sendToUser goes after WriteJSON: on an error it removes the entry.
AfterSendWrite(ok) == IF ok THEN "read" ELSE "stu_delete"

\* Lines 255-257: conn.WriteJSON(msg).
SendToUserWrite(c) ==
    /\ pc[c] = "stu_write"
    /\ \E ok \in WriteOutcomes(conn[c]) :
         /\ sent' = [sent EXCEPT ![conn[c]] =
                       Append(@, Written(outMsg[c], c, nread[c], 0, ok))]
         /\ broken' = [broken EXCEPT ![conn[c]] = @ \/ ~ok]
         /\ pc' = [pc EXCEPT ![c] = AfterSendWrite(ok)]
    /\ UNCHANGED <<connections, chats, messages, query, currentUserID, msg,
                   nread, outMsg, conn, targets, idx, closes, outcome, calls,
                   regMut, bc, response,
                   req, lastOp, lock, prev>>

\* Lines 260-262: delete(ctrl.connections, userID).
SendToUserDelete(c, fine) ==
    /\ pc[c] = "stu_delete"
    /\ connections' = [connections EXCEPT ![currentUserID[c]] = NoConn]
    /\ regMut' = [regMut EXCEPT ![c] = @ + 1]
    /\ Critical(c, "W", "stu_close", fine)
    /\ UNCHANGED <<chats, messages, query, currentUserID, msg, nread, outMsg,
                   conn, targets, idx, closes, broken, sent, outcome, calls, bc, response,
                   req, lastOp, prev>>

\* Line 265: conn.Close() on the connection whose write failed.
SendToUserClose(c) ==
    /\ pc[c] = "stu_close"
    /\ closes' = [closes EXCEPT ![conn[c]] = @ + 1]
    /\ pc' = [pc EXCEPT ![c] = "read"]
    /\ UNCHANGED <<connections, chats, messages, query, currentUserID, msg,
                   nread, outMsg, conn, targets, idx, broken, sent, outcome,
                   calls, regMut, bc, response,
                   req, lastOp, lock, prev>>

\* ------------------------------------------------------------- ChatService
\* Outcomes of the database calls of one ChatService method: none fails, or
\* the named query returns an error.
DbFaults == {"none", "count", "create", "first", "update"}

\* UserHasAccessToChat: the chat exists and userID is one of its two users;
\* an error of the Count query leaves count at 0.
UserHasAccessToChat(chatID, userID, fault) ==
    /\ fault # "count"
    /\ chatID \in DOMAIN chats
    /\ userID \in {chats[chatID][1], chats[chatID][2]}

\* SendMessage with a fault: the access check is missing.
SendMessageNoAccessCheck(chatID, senderID, content, fault) ==
    IF content = "" THEN [err |-> TRUE, created |-> FALSE]
    ELSE IF fault = "create" THEN [err |-> TRUE, created |-> FALSE]
    ELSE IF fault = "first" THEN [err |-> TRUE, created |-> TRUE]
    ELSE [err |-> FALSE, created |-> TRUE]

\* ChatService.SendMessage: whether it returns an error and whether the
\* message row was created (Create succeeded; the reload may still fail).
SendMessage(chatID, senderID, content, fault) ==
    IF ~UserHasAccessToChat(chatID, senderID, fault)
    THEN [err |-> TRUE, created |-> FALSE]
    ELSE IF content = "" THEN [err |-> TRUE, created |-> FALSE]
    ELSE IF fault = "create" THEN [err |-> TRUE, created |-> FALSE]
    ELSE IF fault = "first" THEN [err |-> TRUE, created |-> TRUE]
    ELSE [err |-> FALSE, created |-> TRUE]

\* The row SendMessage creates.
NewMessage(chatID, senderID, content) ==
    [chat_id |-> chatID, sender_id |-> senderID, content |-> content,
     is_read |-> FALSE]

\* MarkMessagesAsRead with a fault: the sender is not excluded.
MarkMessagesAsReadAnySender(chatID, userID, fault) ==
    IF ~UserHasAccessToChat(chatID, userID, fault)
    THEN [err |-> TRUE, rows |-> messages]
    ELSE IF fault = "update" THEN [err |-> TRUE, rows |-> messages]
    ELSE [err |-> FALSE,
          rows |-> [i \in DOMAIN messages |->
                      IF messages[i].chat_id = chatID /\ ~messages[i].is_read
                      THEN [messages[i] EXCEPT !.is_read = TRUE]
                      ELSE messages[i]]]

\* ChatService.MarkMessagesAsRead: the messages table after the call.
MarkMessagesAsRead(chatID, userID, fault) ==
    IF ~UserHasAccessToChat(chatID, userID, fault)
    THEN [err |-> TRUE, rows |-> messages]
    ELSE IF fault = "update" THEN [err |-> TRUE, rows |-> messages]
    ELSE [err |-> FALSE,
          rows |-> [i \in DOMAIN messages |->
                      IF /\ messages[i].chat_id = chatID
                         /\ messages[i].sender_id # userID
                         /\ ~messages[i].is_read
                      THEN [messages[i] EXCEPT !.is_read = TRUE]
                      ELSE messages[i]]]

\* ChatService.GetChatByID: an error unless the user has access and the
\* chat row loads.
GetChatByID(chatID, userID, fault) ==
    IF ~UserHasAccessToChat(chatID, userID, fault) THEN [err |-> TRUE]
    ELSE IF fault = "first" \/ chatID \notin DOMAIN chats THEN [err |-> TRUE]
    ELSE [err |-> FALSE]

\* GetChatParticipants with a fault: the query lacks the chat id and returns
\* the first chat of the table.
GetChatParticipantsFirstChat(chatID, fault) ==
    IF fault = "first" \/ chats = <<>>
    THEN [err |-> TRUE, user1ID |-> 0, user2ID |-> 0]
    ELSE [err |-> FALSE, user1ID |-> chats[1][1], user2ID |-> chats[1][2]]

\* ChatService.GetChatParticipants: the two user ids, without access check.
GetChatParticipants(chatID, fault) ==
    IF fault = "first" \/ chatID \notin DOMAIN chats
    THEN [err |-> TRUE, user1ID |-> 0, user2ID |-> 0]
    ELSE [err |-> FALSE, user1ID |-> chats[chatID][1], user2ID |-> chats[chatID][2]]

\* ------------------------------------------------------------ the read loop
\* InvalidSend with a fault: && for ||, a zero chat id is rejected only
\* together with an empty content.
InvalidSendAnd(m) == m.chat_id = 0 /\ m.content = ""

\* Line 163: the validation of handleSendMessage.
InvalidSend(m) == m.chat_id = 0 \/ m.content = ""

\* DispatchUnknown with a fault: an unknown type is answered by an error.
DispatchUnknownAsError(m) ==
    [pc |-> "stu_lookup", out |-> "error", outcome |-> "invalid"]

\* Lines 156-157: the default case only logs the type.
DispatchUnknown(m) == [pc |-> "read", out |-> "", outcome |-> "ignored"]

\* Lines 142-158, 163, 207, 230: where the frame m is dispatched to, up to
\* the handler's first call of sendToUser or of ChatService.
Dispatch(m) ==
    CASE m.type = "ping" -> [pc |-> "stu_lookup", out |-> "pong", outcome |-> "pong"]
      [] m.type = "send_message" ->
           IF InvalidSend(m)
           THEN [pc |-> "stu_lookup", out |-> "error", outcome |-> "invalid"]
           ELSE [pc |-> "sm_store", out |-> "", outcome |-> ""]
      [] m.type = "join_chat" ->
           IF m.chat_id = 0
           THEN [pc |-> "stu_lookup", out |-> "error", outcome |-> "invalid"]
           ELSE [pc |-> "jc_store", out |-> "", outcome |-> ""]
      [] m.type = "mark_read" ->
           IF m.chat_id = 0
           THEN [pc |-> "stu_lookup", out |-> "error", outcome |-> "invalid"]
           ELSE [pc |-> "mr_store", out |-> "", outcome |-> ""]
      [] OTHER -> DispatchUnknown(m)

RECURSIVE SumTo(_, _)
SumTo(f, n) == IF n = 0 THEN 0 ELSE f[n] + SumTo(f, n - 1)

\* Frames read so far by all sessions.
FramesRead == SumTo(nread, Cardinality(Conns))

\* ReadyToRead with a fault: the handlers run on their own (go handler()),
\* the loop reads the next frame while the last one is still being handled.
ReadyToReadEarly(c) ==
    pc[c] \in {"read", "sm_store", "bc_parts", "bc_lookup", "bc_write",
               "stu_lookup", "stu_write"}

\* Lines 132-159: the loop calls ReadJSON again only after the switch, and
\* the handler it called, has returned.
ReadyToRead(c) == pc[c] = "read"

\* Lines 132-158: ReadJSON returns the next frame, which is dispatched.
ReadFrame(c, frames, limit) ==
    /\ ReadyToRead(c)
    /\ closes[c] = 0
    /\ FramesRead < limit
    /\ prev' = [prev EXCEPT ![c] = msg[c].type]
    /\ \E m \in frames :
         /\ msg' = [msg EXCEPT ![c] = m]
         /\ pc' = [pc EXCEPT ![c] = Dispatch(m).pc]
         /\ outMsg' = [outMsg EXCEPT ![c] = Dispatch(m).out]
         /\ outcome' = [outcome EXCEPT ![c] = Dispatch(m).outcome]
    /\ nread' = [nread EXCEPT ![c] = @ + 1]
    /\ calls' = [calls EXCEPT ![c] = 0]
    /\ regMut' = [regMut EXCEPT ![c] = 0]
    /\ bc' = [bc EXCEPT ![c] = <<>>]
    /\ response' = [response EXCEPT ![c] = 0]
    /\ conn' = [conn EXCEPT ![c] = NoConn]
    /\ UNCHANGED <<connections, chats, messages, query, currentUserID,
                   targets, idx, closes, broken, sent,
                   req, lastOp, lock>>

\* Lines 134-137: ReadJSON fails (the peer closed, a frame did not decode,
\* the read deadline passed, or the connection was closed); the loop ends
\* and the locals of the last handler are gone.
ReadError(c) ==
    /\ pc[c] = "read"
    /\ pc' = [pc EXCEPT ![c] = "cl_delete"]
    /\ prev' = [prev EXCEPT ![c] = ""]
    /\ msg' = [msg EXCEPT ![c] = NoFrame]
    /\ outMsg' = [outMsg EXCEPT ![c] = ""]
    /\ outcome' = [outcome EXCEPT ![c] = ""]
    /\ calls' = [calls EXCEPT ![c] = 0]
    /\ regMut' = [regMut EXCEPT ![c] = 0]
    /\ bc' = [bc EXCEPT ![c] = <<>>]
    /\ response' = [response EXCEPT ![c] = 0]
    /\ conn' = [conn EXCEPT ![c] = NoConn]
    /\ UNCHANGED <<connections, chats, messages, query, currentUserID, nread,
                   targets, idx, closes, broken, sent,
                   req, lastOp, lock>>

\* Lines 116-118: the deferred delete(ctrl.connections, currentUserID).
CleanupDelete(c, fine) ==
    /\ pc[c] = "cl_delete"
    /\ connections' = [connections EXCEPT ![currentUserID[c]] = NoConn]
    /\ Critical(c, "W", "cl_close", fine)
    /\ UNCHANGED <<chats, messages, query, currentUserID, msg, nread, outMsg,
                   conn, targets, idx, closes, broken, sent, outcome, calls,
                   regMut, bc, response,
                   req, lastOp, prev>>

\* Line 119: the deferred c.Close().
CleanupClose(c) ==
    /\ pc[c] = "cl_close"
    /\ closes' = [closes EXCEPT ![c] = @ + 1]
    /\ pc' = [pc EXCEPT ![c] = "closed"]
    /\ UNCHANGED <<connections, chats, messages, query, currentUserID, msg,
                   nread, outMsg, conn, targets, idx, broken, sent, outcome,
                   calls, regMut, bc, response,
                   req, lastOp, lock, prev>>

\* ---------------------------------------------------------------- handlers
\* Lines 169-173: handleSendMessage calls ChatService.SendMessage.
HandleSendMessage(c) ==
    /\ pc[c] = "sm_store"
    /\ \E fault \in DbFaults :
         LET r == SendMessage(msg[c].chat_id, currentUserID[c], msg[c].content, fault)
         IN /\ messages' =
                 IF r.created
                 THEN Append(messages, NewMessage(msg[c].chat_id, currentUserID[c],
                                                  msg[c].content))
                 ELSE messages
            /\ response' = [response EXCEPT ![c] =
                              IF r.err THEN 0 ELSE Len(messages) + 1]
            /\ outcome' = [outcome EXCEPT ![c] = IF r.err THEN "failed" ELSE "stored"]
            /\ outMsg' = [outMsg EXCEPT ![c] = IF r.err THEN "error" ELSE "new_message"]
            /\ pc' = [pc EXCEPT ![c] = IF r.err THEN "stu_lookup" ELSE "bc_parts"]
    /\ calls' = [calls EXCEPT ![c] = @ + 1]
    /\ UNCHANGED <<connections, chats, query, currentUserID, msg, nread, conn,
                   targets, idx, closes, broken, sent, regMut, bc,
                   req, lastOp, lock, prev>>

\* Lines 213-226: handleJoinChat calls ChatService.GetChatByID.
HandleJoinChat(c) ==
    /\ pc[c] = "jc_store"
    /\ \E fault \in DbFaults :
         LET r == GetChatByID(msg[c].chat_id, currentUserID[c], fault)
         IN /\ outcome' = [outcome EXCEPT ![c] = IF r.err THEN "failed" ELSE "ok"]
            /\ outMsg' = [outMsg EXCEPT ![c] = IF r.err THEN "error" ELSE "joined_chat"]
    /\ pc' = [pc EXCEPT ![c] = "stu_lookup"]
    /\ calls' = [calls EXCEPT ![c] = @ + 1]
    /\ UNCHANGED <<connections, chats, messages, query, currentUserID, msg,
                   nread, conn, targets, idx, closes, broken, sent, regMut, bc,
                   response,
                   req, lastOp, lock, prev>>

\* Lines 235-245: handleMarkRead calls ChatService.MarkMessagesAsRead.
HandleMarkRead(c) ==
    /\ pc[c] = "mr_store"
    /\ \E fault \in DbFaults :
         LET r == MarkMessagesAsRead(msg[c].chat_id, currentUserID[c], fault)
         IN /\ messages' = r.rows
            /\ outcome' = [outcome EXCEPT ![c] = IF r.err THEN "failed" ELSE "ok"]
            /\ outMsg' = [outMsg EXCEPT ![c] =
                            IF r.err THEN "error" ELSE "messages_marked_read"]
    /\ pc' = [pc EXCEPT ![c] = "stu_lookup"]
    /\ calls' = [calls EXCEPT ![c] = @ + 1]
    /\ UNCHANGED <<connections, chats, query, currentUserID, msg, nread, conn,
                   targets, idx, closes, broken, sent, regMut, bc, response,
                   req, lastOp, lock, prev>>

\* ----------------------------------------------------------- broadcastToChat
\* Targets with a fault: the second participant is left out.
TargetsFirstOnly(user1ID, user2ID) == <<user1ID>>

\* Line 286: targets := []uint{user1ID, user2ID}.
Targets(user1ID, user2ID) == <<user1ID, user2ID>>

\* Lines 279-286: fetch the participants; an error aborts the broadcast.
BroadcastParticipants(c) ==
    /\ pc[c] = "bc_parts"
    /\ \E fault \in DbFaults :
         LET r == GetChatParticipants(msg[c].chat_id, fault)
         IN IF r.err
            THEN /\ outcome' = [outcome EXCEPT ![c] = "aborted"]
                 /\ pc' = [pc EXCEPT ![c] = "read"]
                 /\ UNCHANGED <<targets, idx>>
            ELSE /\ outcome' = [outcome EXCEPT ![c] = "fanout"]
                 /\ targets' = [targets EXCEPT ![c] = Targets(r.user1ID, r.user2ID)]
                 /\ idx' = [idx EXCEPT ![c] = 1]
                 /\ pc' = [pc EXCEPT ![c] = "bc_lookup"]
    /\ calls' = [calls EXCEPT ![c] = @ + 1]
    /\ UNCHANGED <<connections, chats, messages, query, currentUserID, msg,
                   nread, outMsg, conn, closes, broken, sent, regMut, bc, response,
                   req, lastOp, lock, prev>>

\* Where the loop of broadcastToChat goes on after the current target.
NextTargetPc(c) == IF idx[c] < Len(targets[c]) THEN "bc_lookup" ELSE "read"

\* The loop variables after the current target.
AdvanceTarget(c) ==
    IF idx[c] < Len(targets[c])
    THEN /\ idx' = [idx EXCEPT ![c] = @ + 1]
         /\ targets' = targets
    ELSE /\ idx' = [idx EXCEPT ![c] = 0]
         /\ targets' = [targets EXCEPT ![c] = <<>>]

\* The loop of broadcastToChat moves on to the next target, or returns.
NextTarget(c) ==
    /\ AdvanceTarget(c)
    /\ pc' = [pc EXCEPT ![c] = NextTargetPc(c)]

\* Line 291: conn, exists := ctrl.connections[userID]; a user without entry
\* (one that never connected included) gives exists = false.
Lookup(userID) ==
    IF userID \in DOMAIN connections THEN connections[userID] ELSE NoConn

\* Lines 290-294: look the target's connection up.
BroadcastLookup(c, fine) ==
    /\ pc[c] = "bc_lookup"
    /\ LET found == Lookup(targets[c][idx[c]])
       IN /\ bc' = [bc EXCEPT ![c] =
                      Append(@, [target |-> targets[c][idx[c]], found |-> found])]
          /\ IF found # NoConn
             THEN /\ conn' = [conn EXCEPT ![c] = found]
                  /\ Critical(c, "R", "bc_write", fine)
                  /\ UNCHANGED <<idx, targets>>
             ELSE /\ conn' = conn
                  /\ AdvanceTarget(c)
                  /\ Critical(c, "R", NextTargetPc(c), fine)
    /\ UNCHANGED <<connections, chats, messages, query, currentUserID, msg,
                   nread, outMsg, closes, broken, sent, outcome, calls, regMut,
                   response,
                   req, lastOp, prev>>

\* ContinueAfterWrite with a fault: the loop breaks at the first failed write.
ContinueAfterWriteBreak(ok) == ok

\* Lines 296-298: a failed write is logged and the loop goes on.
ContinueAfterWrite(ok) == TRUE

\* Line 296: conn.WriteJSON(msg) to the target.
BroadcastWrite(c) ==
    /\ pc[c] = "bc_write"
    /\ \E ok \in WriteOutcomes(conn[c]) :
         /\ sent' = [sent EXCEPT ![conn[c]] =
                       Append(@, Written("new_message", c, nread[c], response[c], ok))]
         /\ broken' = [broken EXCEPT ![conn[c]] = @ \/ ~ok]
         /\ IF ContinueAfterWrite(ok)
            THEN NextTarget(c)
            ELSE /\ idx' = [idx EXCEPT ![c] = 0]
                 /\ pc' = [pc EXCEPT ![c] = "read"]
                 /\ targets' = [targets EXCEPT ![c] = <<>>]
    /\ conn' = [conn EXCEPT ![c] = NoConn]
    /\ UNCHANGED <<connections, chats, messages, query, currentUserID, msg,
                   nread, outMsg, closes, outcome, calls, regMut, bc, response,
                   req, lastOp, lock, prev>>

\* -------------------------------------------------------------- the system
Next ==
    \E c \in Conns :
        \/ Handshake(c, Queries)
        \/ Register(c, FALSE)
        \/ SendToUserLookup(c, FALSE)
        \/ SendToUserWrite(c)
        \/ SendToUserDelete(c, FALSE)
        \/ SendToUserClose(c)
        \/ ReadFrame(c, Frames, MaxFrames)
        \/ ReadError(c)
        \/ CleanupDelete(c, FALSE)
        \/ CleanupClose(c)
        \/ HandleSendMessage(c)
        \/ HandleJoinChat(c)
        \/ HandleMarkRead(c)
        \/ BroadcastParticipants(c)
        \/ BroadcastLookup(c, FALSE)
        \/ BroadcastWrite(c)

Spec == Init /\ [][Next]_vars

\* The sessions with ctrl.mutex: each Lock()/RLock() section and its unlock
\* are separate steps, and a section starts only when the mutex allows it.
NextLock ==
    \E c \in Conns :
        \/ Handshake(c, Queries)
        \/ Register(c, TRUE)
        \/ SendToUserLookup(c, TRUE)
        \/ SendToUserWrite(c)
        \/ SendToUserDelete(c, TRUE)
        \/ SendToUserClose(c)
        \/ ReadFrame(c, Frames, MaxFrames)
        \/ ReadError(c)
        \/ CleanupDelete(c, TRUE)
        \/ CleanupClose(c)
        \/ HandleSendMessage(c)
        \/ HandleJoinChat(c)
        \/ HandleMarkRead(c)
        \/ BroadcastParticipants(c)
        \/ BroadcastLookup(c, TRUE)
        \/ BroadcastWrite(c)
        \/ Unlock(c)

SpecLock == Init /\ [][NextLock]_vars

\* Two users that connect without token; a ping, a frame of unknown type and
\* a message for the chat they share.
SeqQueries == [user_id : {<<"5">>, <<"7">>}, token : {""}]
SeqFrames ==
    { [type |-> "ping", chat_id |-> 0, content |-> ""],
      [type |-> "typing", chat_id |-> 0, content |-> ""],
      [type |-> "send_message", chat_id |-> 1, content |-> "hi"] }

\* The sessions of these users, each reading several frames in a row.
NextSeq ==
    \E c \in Conns :
        \/ Handshake(c, SeqQueries)
        \/ Register(c, FALSE)
        \/ SendToUserLookup(c, FALSE)
        \/ SendToUserWrite(c)
        \/ SendToUserDelete(c, FALSE)
        \/ SendToUserClose(c)
        \/ ReadFrame(c, SeqFrames, MaxSeqFrames)
        \/ ReadError(c)
        \/ CleanupDelete(c, FALSE)
        \/ CleanupClose(c)
        \/ HandleSendMessage(c)
        \/ BroadcastParticipants(c)
        \/ BroadcastLookup(c, FALSE)
        \/ BroadcastWrite(c)

SpecSeq == Init /\ [][NextSeq]_vars

\* The database holds a second chat, of user 5 with a user 9 who does not
\* connect; the users 5 and 7 connect and send messages to either chat.
InitTwoChats == InitWith(<< <<5, 7>>, <<5, 9>> >>)
TwoChatFrames == [type : {"send_message"}, chat_id : {1, 2}, content : {"hi"}]

NextTwoChats ==
    \E c \in Conns :
        \/ Handshake(c, SeqQueries)
        \/ Register(c, FALSE)
        \/ SendToUserLookup(c, FALSE)
        \/ SendToUserWrite(c)
        \/ SendToUserDelete(c, FALSE)
        \/ SendToUserClose(c)
        \/ ReadFrame(c, TwoChatFrames, MaxFrames)
        \/ ReadError(c)
        \/ CleanupDelete(c, FALSE)
        \/ CleanupClose(c)
        \/ HandleSendMessage(c)
        \/ BroadcastParticipants(c)
        \/ BroadcastLookup(c, FALSE)
        \/ BroadcastWrite(c)

SpecTwoChats == InitTwoChats /\ [][NextTwoChats]_vars

\* ------------------------------------------- callers outside the sessions
\* The state of the sessions, which the calls below leave alone.
sessionVars == <<connections, query, pc, currentUserID, msg, nread, outMsg,
                 conn, targets, idx, closes, broken, sent, outcome, calls,
                 regMut, bc, response, lock, prev>>

\* SelfChat with a fault: the check of line 24 is missing.
SelfChatNever(user1ID, user2ID) == FALSE

\* Line 24: user1ID == user2ID.
SelfChat(user1ID, user2ID) == user1ID = user2ID

\* Lines 29-31: the smaller id first.
Ordered(user1ID, user2ID) ==
    IF user1ID > user2ID THEN <<user2ID, user1ID>> ELSE <<user1ID, user2ID>>

\* Lines 36-39: the chat First() returns for the pair in either order (the
\* one with the smallest primary key), 0 for ErrRecordNotFound.
FindChat(user1ID, user2ID) ==
    LET hits == {i \in DOMAIN chats :
                    chats[i] \in {<<user1ID, user2ID>>, <<user2ID, user1ID>>}}
    IN IF hits = {} THEN 0 ELSE CHOOSE i \in hits : \A j \in hits : i <= j

\* The chats table after Create(&newChat): one more row, with the next id.
\* The table has no uniqueness constraint on the pair of users.
CreateChat(user1ID, user2ID) == Append(chats, <<user1ID, user2ID>>)

\* Lines 306-316, 23-31: request r calls GetOrCreateChat(a, b) for the
\* authenticated user a and the user b of the path; a == b returns an error
\* before any query, otherwise the pair is ordered.  Requests arrive in the
\* order of their numbers.
GocCall(r) ==
    /\ req[r].pc = "idle"
    /\ IF r = 1 THEN TRUE ELSE req[r - 1].pc # "idle"
    /\ \E a, b \in GocUsers :
         IF SelfChat(a, b)
         THEN req' = [req EXCEPT ![r] = [NoReq EXCEPT !.pc = "done", !.user1ID = a,
                                          !.user2ID = b, !.err = TRUE]]
         ELSE req' = [req EXCEPT ![r] = [NoReq EXCEPT !.pc = "find",
                                          !.user1ID = Ordered(a, b)[1],
                                          !.user2ID = Ordered(a, b)[2]]]
    /\ UNCHANGED <<sessionVars, chats, messages, lastOp>>

\* Lines 36-47: the query for an existing chat of the pair.
GocFind(r) ==
    /\ req[r].pc = "find"
    /\ \E fault \in {"none", "first"} :
         LET found == FindChat(req[r].user1ID, req[r].user2ID)
         IN req' = [req EXCEPT ![r] =
                      IF fault = "first"
                      THEN [@ EXCEPT !.pc = "done", !.err = TRUE, !.queries = @ + 1]
                      ELSE IF found # 0
                      THEN [@ EXCEPT !.pc = "done", !.chat = found, !.queries = @ + 1]
                      ELSE [@ EXCEPT !.pc = "create", !.queries = @ + 1]]
    /\ UNCHANGED <<sessionVars, chats, messages, lastOp>>

\* Lines 50-64: Create(&newChat), then the reload of the new row; the reload
\* may fail after the row was created.
GocCreate(r) ==
    /\ req[r].pc = "create"
    /\ \E fault \in {"none", "create", "first"} :
         IF fault = "create"
         THEN /\ req' = [req EXCEPT ![r] =
                           [@ EXCEPT !.pc = "done", !.err = TRUE, !.queries = @ + 1]]
              /\ chats' = chats
         ELSE /\ chats' = CreateChat(req[r].user1ID, req[r].user2ID)
              /\ req' = [req EXCEPT ![r] =
                           [@ EXCEPT !.pc = "done", !.created = TRUE,
                                     !.queries = @ + 2,
                                     !.err = (fault = "first"),
                                     !.chat = IF fault = "first" THEN 0
                                              ELSE Len(chats) + 1]]
    /\ UNCHANGED <<sessionVars, messages, lastOp>>

\* A caller of ChatService.SendMessage (handleSendMessage, line 169) with
\* any arguments.
CallSendMessage ==
    /\ lastOp.n < MaxOps
    /\ \E chatID \in ChatIds, senderID \in StoreUsers, content \in Contents,
          fault \in {"none", "count", "create", "first"} :
         LET r == SendMessage(chatID, senderID, content, fault)
         IN /\ messages' = IF r.created
                           THEN Append(messages, NewMessage(chatID, senderID, content))
                           ELSE messages
            /\ lastOp' = [n |-> lastOp.n + 1, op |-> "SendMessage",
                          chatID |-> chatID, userID |-> senderID,
                          content |-> content, err |-> r.err]
    /\ UNCHANGED <<sessionVars, chats, req>>

\* A caller of ChatService.MarkMessagesAsRead (handleMarkRead, line 235;
\* MarkChatAsRead, line 375) with any arguments.
CallMarkMessagesAsRead ==
    /\ lastOp.n < MaxOps
    /\ \E chatID \in ChatIds, userID \in StoreUsers,
          fault \in {"none", "count", "update"} :
         LET r == MarkMessagesAsRead(chatID, userID, fault)
         IN /\ messages' = r.rows
            /\ lastOp' = [n |-> lastOp.n + 1, op |-> "MarkMessagesAsRead",
                          chatID |-> chatID, userID |-> userID,
                          content |-> "", err |-> r.err]
    /\ UNCHANGED <<sessionVars, chats, req>>

\* The chat service under concurrent REST requests and arbitrary callers.
NextStore ==
    \/ \E r \in Reqs :
         \/ GocCall(r)
         \/ GocFind(r)
         \/ GocCreate(r)
    \/ CallSendMessage
    \/ CallMarkMessagesAsRead

SpecStore == Init /\ [][NextStore]_vars

\* ------------------------------------------------------------------ claims
\* The writes that frame k of session c attempted on connection h.
WritesBy(h, c, k) ==
    {i \in DOMAIN sent[h] : sent[h][i].by = c /\ sent[h][i].frame = k}

\* Those of them that carry an event of the given type.
WritesOf(h, c, k, type) ==
    {i \in WritesBy(h, c, k) : sent[h][i].type = type}

\* The handler of the last frame session c read has returned.
HandlerDone(c) == pc[c] = "read" /\ msg[c] # NoFrame

\* The last frame of session c was a send_message that succeeded, and the
\* broadcast it started has resolved the participants and is over.
BroadcastDone(c) ==
    /\ outcome[c] = "fanout"
    /\ pc[c] \notin {"bc_lookup", "bc_write"}

\* The i-th lookup of c's broadcast found no connection / found one, on which
\* the write then failed.
Absent(c, i) == i <= Len(bc[c]) /\ bc[c][i].found = NoConn
Failed(c, i) ==
    /\ i <= Len(bc[c])
    /\ bc[c][i].found # NoConn
    /\ \E j \in WritesBy(bc[c][i].found, c, nread[c]) : ~sent[bc[c][i].found][j].ok

\* C1 (as amended): when a send_message succeeds and the broadcast resolves
\* the chat's participants, exactly one write of the new_message event (of
\* the persisted message) is attempted on the connection each of the two
\* participants had in the registry at its lookup, the sender included, and
\* nothing else is written; with neither registered nothing is written at
\* all, and in every case the sender's session is back in its read loop.
\* When the participants cannot be resolved the broadcast writes nothing.
C1_BroadcastDelivery ==
    \A c \in Conns :
        /\ BroadcastDone(c) =>
             /\ pc[c] = "read"
             /\ msg[c].type = "send_message"
             /\ response[c] \in DOMAIN messages
             /\ messages[response[c]].sender_id = currentUserID[c]
             /\ Len(bc[c]) = 2
             /\ bc[c][1].target = chats[msg[c].chat_id][1]
             /\ bc[c][2].target = chats[msg[c].chat_id][2]
             /\ currentUserID[c] \in {bc[c][1].target, bc[c][2].target}
             /\ \A h \in Conns :
                  /\ Cardinality(WritesBy(h, c, nread[c]))
                       = Cardinality({i \in 1..2 : bc[c][i].found = h})
                  /\ \A i \in WritesBy(h, c, nread[c]) :
                       /\ sent[h][i].type = "new_message"
                       /\ sent[h][i].id = response[c]
        /\ (pc[c] = "read" /\ outcome[c] = "aborted") =>
             \A h \in Conns : WritesBy(h, c, nread[c]) = {}

\* C1 as stated: every successful send_message leads to a write on the
\* connection of each participant registered at that moment, so that its
\* handler never returns without any write while a participant is registered.
C1_Original ==
    [][\A c \in Conns :
          (pc[c] = "bc_parts" /\ pc'[c] = "read") =>
              \A u \in {chats[msg[c].chat_id][1], chats[msg[c].chat_id][2]} :
                  connections[u] = NoConn]_vars

\* Witness of C1: a broadcast is over in which both participants were
\* registered and each connection, the sender's own included, got the event.
C1_Witness ==
    \E c \in Conns :
        /\ BroadcastDone(c)
        /\ bc[c][1].found # NoConn
        /\ bc[c][2].found # NoConn
        /\ c \in {bc[c][1].found, bc[c][2].found}
        /\ \A i \in 1..2 :
             \E j \in WritesOf(bc[c][i].found, c, nread[c], "new_message") :
                 sent[bc[c][i].found][j].ok

\* The case of C1 with neither participant registered: the sender's entry
\* was removed by another session of the same user.
C1_NeitherRegistered ==
    \E c \in Conns :
        /\ BroadcastDone(c)
        /\ bc[c][1].found = NoConn
        /\ bc[c][2].found = NoConn

\* C2: in a broadcast, when the write to one participant fails or that
\* participant has no registry entry, the loop still reaches the other
\* participant and attempts exactly one write on its connection if it has
\* one, whichever of the two comes first.
C2_IndependentDelivery ==
    \A c \in Conns :
        BroadcastDone(c) =>
            \A i \in 1..2 :
                (Absent(c, i) \/ Failed(c, i)) =>
                    /\ Len(bc[c]) = 2
                    /\ bc[c][3 - i].found # NoConn =>
                         Cardinality(WritesOf(bc[c][3 - i].found, c, nread[c],
                                              "new_message")) = 1

\* Witness of C2: the write to the first target failed and the second
\* target's connection was still written, successfully.
C2_Witness ==
    \E c \in Conns :
        /\ BroadcastDone(c)
        /\ Failed(c, 1)
        /\ bc[c][2].found # NoConn
        /\ \E j \in WritesOf(bc[c][2].found, c, nread[c], "new_message") :
             sent[bc[c][2].found][j].ok

\* C3 as stated: once a broadcast's write to a recipient's connection has
\* failed, the registry no longer maps that recipient to the connection, and
\* no later new_message is attempted on a connection after one failed on it.
C3_Original ==
    /\ \A c \in Conns :
         BroadcastDone(c) =>
             \A i \in 1..Len(bc[c]) :
                 Failed(c, i) => connections[bc[c][i].target] # bc[c][i].found
    /\ \A h \in Conns :
         \A i, j \in DOMAIN sent[h] :
             (i < j /\ sent[h][i].type = "new_message" /\ ~sent[h][i].ok)
                 => sent[h][j].type # "new_message"

\* C4 as stated: an entry id -> h leaves the registry only in the cleanup of
\* the session that owns h, or after a failed write to h itself.
C4_Original ==
    [][\A u \in UserIds :
          (connections[u] # NoConn /\ connections'[u] = NoConn) =>
              \/ /\ pc[connections[u]] = "cl_delete"
                 /\ pc'[connections[u]] = "cl_close"
              \/ \E c \in Conns :
                   /\ pc[c] = "stu_delete"
                   /\ pc'[c] = "stu_close"
                   /\ conn[c] = connections[u]]_vars

\* C5 as stated: the connection of a session that reached Active is closed
\* exactly once when the session is over, and never twice.
C5_Original ==
    \A c \in Conns :
        /\ closes[c] <= 1
        /\ pc[c] = "closed" => closes[c] = 1

\* The user_id of the query is missing or does not parse.
BadUserId(q) == q.user_id = <<>> \/ ParseUint(q.user_id).err

\* Connection c is in the registry.
Registered(c) == \E u \in UserIds : connections[u] = c

\* C6: a connection whose user_id is missing or unparsable is closed at once:
\* it never gets a session, is never in the registry, and nothing is ever
\* written to it.
C6_BadUserIdRejected ==
    \A c \in Conns :
        (pc[c] # "new" /\ BadUserId(query[c])) =>
            /\ pc[c] = "rejected"
            /\ closes[c] = 1
            /\ ~Registered(c)
            /\ sent[c] = <<>>

\* Witness of C6: a connection with a bad user_id was rejected while another
\* session is registered and has been written to.
C6_Witness ==
    \E c, d \in Conns :
        /\ pc[c] = "rejected"
        /\ BadUserId(query[c])
        /\ query[c].user_id # <<>>
        /\ Registered(d)
        /\ sent[d] # <<>>

\* The token of the query is present and verifies, and asserts this user.
TokenAsserts(q, u) ==
    /\ q.token # ""
    /\ ~VerifyJWTToken(q.token).err
    /\ VerifyJWTToken(q.token).UserID = u

\* C7: a connection with a token gets a session only if the token verifies
\* and asserts the supplied user_id; otherwise it is closed, never registered
\* and never written to; a parseable user_id without token gets a session.
C7_TokenChecked ==
    \A c \in Conns :
        pc[c] # "new" =>
            /\ (query[c].token # "" /\ pc[c] # "rejected") =>
                 /\ ~BadUserId(query[c])
                 /\ TokenAsserts(query[c], currentUserID[c])
            /\ (query[c].token # "" /\ ~BadUserId(query[c])
                  /\ ~TokenAsserts(query[c], ParseUint(query[c].user_id).val)) =>
                 /\ pc[c] = "rejected"
                 /\ closes[c] = 1
                 /\ ~Registered(c)
                 /\ sent[c] = <<>>
            /\ (query[c].token = "" /\ ~BadUserId(query[c])) =>
                 /\ pc[c] # "rejected"
                 /\ currentUserID[c] = ParseUint(query[c].user_id).val

\* Witness of C7: a session authenticated by its token is active, a
\* connection whose token asserts another user was rejected.
C7_Witness ==
    \E c, d \in Conns :
        /\ query[c].token = "jwt5"
        /\ Active(c)
        /\ Registered(c)
        /\ query[d] = [user_id |-> <<"7">>, token |-> "jwt5"]
        /\ pc[d] = "rejected"

\* The "connected" events written to connection h.
Connected(h) == {i \in DOMAIN sent[h] : sent[h][i].type = "connected"}

\* C8 as stated: no connection is ever written more than one "connected"
\* event, and a session whose welcome message has been sent has exactly one
\* on its own connection.
C8_Original ==
    \A c \in Conns :
        /\ Cardinality(Connected(c)) <= 1
        /\ (pc[c] = "read" /\ nread[c] = 0) => Cardinality(Connected(c)) = 1

\* C9 as stated: a ping read on a connection is answered by exactly one pong
\* written to that connection and to no other, without any ChatStore call.
C9_Original ==
    \A c \in Conns :
        (HandlerDone(c) /\ msg[c].type = "ping") =>
            /\ calls[c] = 0
            /\ \A h \in Conns :
                 Cardinality(WritesBy(h, c, nread[c])) = IF h = c THEN 1 ELSE 0
            /\ \A i \in WritesBy(c, c, nread[c]) : sent[c][i].type = "pong"

\* The last frame of session c was a send_message with chat_id = 0 or an
\* empty content, and its handler has returned.
InvalidSendDone(c) ==
    /\ HandlerDone(c)
    /\ msg[c].type = "send_message"
    /\ (msg[c].chat_id = 0 \/ msg[c].content = "")

Commands == {"send_message", "join_chat", "mark_read"}

\* The last frame of session c was a command that failed (validation,
\* authorization or persistence), and its handler has returned.
FailedCommandDone(c) ==
    /\ HandlerDone(c)
    /\ msg[c].type \in Commands
    /\ outcome[c] \in {"invalid", "failed"}

\* C11 as stated: a failing command persists nothing (the step of the
\* ChatService call that ends in an error leaves the messages table alone),
\* broadcasts nothing, attempts its one error event on the originator's own
\* connection and on no other, and leaves the originator's session in its
\* read loop, registered and with an open connection.
C11_Original ==
    [][\A c \in Conns :
          /\ (pc[c] \in {"sm_store", "jc_store", "mr_store"}
                /\ outMsg'[c] = "error") => messages' = messages
          /\ FailedCommandDone(c)' =>
               /\ bc'[c] = <<>>
               /\ \A h \in Conns :
                    /\ Cardinality(WritesBy(h, c, nread[c])') = IF h = c THEN 1 ELSE 0
                    /\ \A i \in WritesBy(h, c, nread[c])' : sent'[h][i].type = "error"
               /\ connections'[currentUserID'[c]] = c
               /\ closes'[c] = 0]_vars

\* Session c has stored its connection in the registry and is not over.
HasRegistered(c) == pc[c] \in ActivePcs \ {"register"}

\* No write on any connection has failed so far.
NoWriteFailed == \A h \in Conns : \A i \in DOMAIN sent[h] : sent[h][i].ok

\* C12: when two sessions have registered under different user ids, in
\* whatever order their steps interleaved, and neither has terminated and no
\* write has failed, the registry maps each id to that session's connection.
C12_NoLostRegistration ==
    \A c, d \in Conns :
        (/\ c # d
         /\ HasRegistered(c)
         /\ HasRegistered(d)
         /\ currentUserID[c] # currentUserID[d]
         /\ NoWriteFailed) =>
            /\ connections[currentUserID[c]] = c
            /\ connections[currentUserID[d]] = d

\* Witness of C12: two sessions registered under different ids, both are
\* back in their read loops after the welcome writes and both entries are
\* in the registry.
C12_Witness ==
    \E c, d \in Conns :
        /\ c < d
        /\ currentUserID[c] # currentUserID[d]
        /\ pc[c] = "read"
        /\ pc[d] = "read"
        /\ NoWriteFailed
        /\ Len(sent[c]) = 1
        /\ Len(sent[d]) = 1
        /\ connections[currentUserID[c]] = c
        /\ connections[currentUserID[d]] = d

\* Requests r and s have returned from GetOrCreateChat calls for the same
\* two different users, in either argument order.
SamePairDone(r, s) ==
    /\ req[r].pc = "done"
    /\ req[s].pc = "done"
    /\ req[r].user1ID # req[r].user2ID
    /\ req[r].user1ID = req[s].user1ID
    /\ req[r].user2ID = req[s].user2ID

\* C13 as stated: any two calls for the same pair, in either order, that
\* return a chat return the same one, and at most one call for a pair
\* creates a chat.
C13_Original ==
    \A r, s \in Reqs :
        (r # s /\ SamePairDone(r, s)) =>
            /\ (~req[r].err /\ ~req[s].err) => req[r].chat = req[s].chat
            /\ ~(req[r].created /\ req[s].created)

\* C14 as stated: every stored chat has its smaller participant id first,
\* and no two stored chats have the same unordered pair of participants.
C14_Original ==
    \A i \in DOMAIN chats :
        /\ chats[i][1] < chats[i][2]
        /\ \A j \in DOMAIN chats :
             i # j => {chats[i][1], chats[i][2]} # {chats[j][1], chats[j][2]}

\* C15: a call GetOrCreateChat(a, a) returns an error at once: it makes no
\* query, creates no chat and returns none, its step leaves both tables as
\* they were, and no stored chat has twice the same participant.
C15_SelfChatFails ==
    [][/\ \A r \in Reqs :
            (req'[r].pc # "idle" /\ req'[r].user1ID = req'[r].user2ID) =>
                /\ req'[r].pc = "done"
                /\ req'[r].err
                /\ req'[r].chat = 0
                /\ req'[r].queries = 0
                /\ ~req'[r].created
                /\ req[r].pc = "idle" => (chats' = chats /\ messages' = messages)
       /\ \A i \in DOMAIN chats' : chats'[i][1] # chats'[i][2]]_vars

\* Witness of C15: a call with twice user 9 has failed, after another
\* request had created the chat of users 5 and 9.
C15_Witness ==
    \E r, s \in Reqs :
        /\ s < r
        /\ req[r].pc = "done"
        /\ req[r].user1ID = 9
        /\ req[r].user2ID = 9
        /\ req[r].err
        /\ req[s].created
        /\ Len(chats) = 2

\* The step is a call MarkMessagesAsRead(lastOp'.chatID, lastOp'.userID).
MarkStep == lastOp'.n = lastOp.n + 1 /\ lastOp'.op = "MarkMessagesAsRead"

\* C16: MarkMessagesAsRead(chat, user) changes a message only by setting the
\* read flag of an unread message of that chat whose sender is not user, and
\* only when user is one of the chat's participants; it adds and removes no
\* message.
C16_MarkReadFrame ==
    [][MarkStep =>
         /\ DOMAIN messages' = DOMAIN messages
         /\ \A i \in DOMAIN messages :
              messages'[i] # messages[i] =>
                  /\ messages[i].chat_id = lastOp'.chatID
                  /\ messages[i].sender_id # lastOp'.userID
                  /\ ~messages[i].is_read
                  /\ messages'[i] = [messages[i] EXCEPT !.is_read = TRUE]
                  /\ lastOp'.chatID \in DOMAIN chats
                  /\ lastOp'.userID \in {chats[lastOp'.chatID][1],
                                         chats[lastOp'.chatID][2]}
                  /\ ~lastOp'.err]_vars

\* Witness of C16: the last call marked a message of the other participant
\* read.
C16_Witness ==
    /\ lastOp.op = "MarkMessagesAsRead"
    /\ ~lastOp.err
    /\ \E i \in DOMAIN messages :
         /\ messages[i].is_read
         /\ messages[i].chat_id = lastOp.chatID
         /\ messages[i].sender_id # lastOp.userID

\* Every stored message belongs to a stored chat, was sent by one of that
\* chat's two participants and has a content.
MessagesOk ==
    \A i \in DOMAIN messages :
        /\ messages[i].chat_id \in DOMAIN chats
        /\ messages[i].sender_id \in {chats[messages[i].chat_id][1],
                                      chats[messages[i].chat_id][2]}
        /\ messages[i].content # ""

\* The step is a call SendMessage(lastOp'.chatID, lastOp'.userID,
\* lastOp'.content).
SendStep == lastOp'.n = lastOp.n + 1 /\ lastOp'.op = "SendMessage"

\* C17: every stored message belongs to a stored chat, has one of its two
\* participants as sender and a non-empty content; a message is created
\* unread; no step removes a message or changes anything but its read flag;
\* SendMessage by a user who is not a participant of the chat, or with an
\* empty content, returns an error and stores nothing.
C17_MessageIntegrity ==
    [][/\ MessagesOk'
       /\ Len(messages') >= Len(messages)
       /\ \A i \in DOMAIN messages :
            [messages'[i] EXCEPT !.is_read = FALSE]
                = [messages[i] EXCEPT !.is_read = FALSE]
       /\ \A i \in DOMAIN messages' \ DOMAIN messages : ~messages'[i].is_read
       /\ (/\ SendStep
           /\ \/ lastOp'.chatID \notin DOMAIN chats
              \/ lastOp'.userID \notin {chats[lastOp'.chatID][1],
                                        chats[lastOp'.chatID][2]}
              \/ lastOp'.content = "") =>
             (lastOp'.err /\ messages' = messages)]_vars

\* Witness of C17: a message of a participant is stored, and the last call,
\* a SendMessage with a content by user 9 for the chat of users 5 and 7,
\* failed.
C17_Witness ==
    /\ Len(messages) = 1
    /\ lastOp.op = "SendMessage"
    /\ lastOp.chatID = 1
    /\ lastOp.userID = 9
    /\ lastOp.content = "hi"
    /\ lastOp.err

\* The positions from which a session's next step is a socket read, write or
\* close, a token verification or a ChatService call.
IOPcs == {"new", "stu_write", "stu_close", "read", "sm_store", "jc_store",
          "mr_store", "bc_parts", "bc_write", "cl_close"}

\* C18: a session holds ctrl.mutex only between a map operation and the
\* unlock that follows it, never at a position from which it reads, writes or
\* closes a socket or calls the ChatService; a step that changes the map is
\* made with the mutex held exclusively (no other holder), a lookup with the
\* mutex held in shared mode (no exclusive holder).
C18_LockOnlyForMap ==
    [][/\ \A c \in Conns :
            /\ lock'[c].mode # "" => pc'[c] = "unlock"
            /\ pc'[c] \in IOPcs => lock'[c] = NoLock
            /\ (pc[c] \in {"register", "stu_delete", "cl_delete"} /\ pc'[c] # pc[c]) =>
                 /\ lock'[c].mode = "W"
                 /\ \A d \in Conns \ {c} : lock'[d].mode = ""
            /\ (pc[c] \in {"stu_lookup", "bc_lookup"} /\ pc'[c] # pc[c]) =>
                 /\ lock'[c].mode = "R"
                 /\ \A d \in Conns : lock'[d].mode # "W"
       /\ connections' # connections => \E c \in Conns : lock'[c].mode = "W"]_vars

\* Witness of C18: a session's broadcast and another session's sendToUser
\* hold the mutex in shared mode at the same time, each right after its
\* lookup.
C18_Witness ==
    \E c, d \in Conns :
        /\ c # d
        /\ lock[c] = [mode |-> "R", then |-> "bc_write"]
        /\ lock[d] = [mode |-> "R", then |-> "stu_write"]

\* The handler of session c's current frame has run to its end: the session
\* is back at the top of its read loop, a failed command or a ping has had
\* its reply attempted if the user had an entry, and a stored message has
\* had its broadcast run over both targets or aborted.
HandlerComplete(c) ==
    /\ pc[c] = "read"
    /\ idx[c] = 0
    /\ targets[c] = <<>>
    /\ outcome[c] \in {"", "pong", "invalid", "failed", "ignored", "aborted",
                       "fanout", "ok"}
    /\ outcome[c] = "fanout" =>
         /\ Len(bc[c]) = 2
         /\ \A i \in 1..2 :
              bc[c][i].found # NoConn =>
                  WritesOf(bc[c][i].found, c, nread[c], "new_message") # {}

\* The writes of one session appear on every connection in the order of the
\* frames that caused them, and the messages they carry in the order in
\* which they were stored.
WritesInFrameOrder ==
    \A h, g \in Conns :
        \A i \in DOMAIN sent[h] :
            \A j \in DOMAIN sent[g] :
                sent[h][i].by = sent[g][j].by =>
                    /\ (h = g /\ i < j) => sent[h][i].frame <= sent[g][j].frame
                    /\ (/\ sent[h][i].type = "new_message"
                        /\ sent[g][j].type = "new_message"
                        /\ sent[h][i].frame < sent[g][j].frame) =>
                           sent[h][i].id < sent[g][j].id

\* C19: a session reads its next frame only when the handler of the frame
\* before it has run to its end (ChatService call, reply, broadcast), one
\* frame at a time; so the writes and the stored messages of a session are
\* in the order of its frames.
C19_FramesInOrder ==
    [][/\ \A c \in Conns :
            nread'[c] # nread[c] =>
                /\ nread'[c] = nread[c] + 1
                /\ HandlerComplete(c)
       /\ WritesInFrameOrder']_vars

\* Witness of C19: a session sent two messages in a row; both are stored in
\* that order and the other participant's connection got both events, in
\* that order.
C19_Witness ==
    \E c, d \in Conns :
        /\ c # d
        /\ nread[c] = 2
        /\ prev[c] = "send_message"
        /\ HandlerComplete(c)
        /\ outcome[c] = "fanout"
        /\ Len(messages) = 2
        /\ \E i, j \in DOMAIN sent[d] :
             /\ i < j
             /\ sent[d][i] = Written("new_message", c, 1, 1, TRUE)
             /\ sent[d][j] = Written("new_message", c, 2, 2, TRUE)

\* The frame types the read loop has a case for.
KnownTypes == {"ping", "send_message", "join_chat", "mark_read"}

\* C20: the step that reads a frame of unknown type writes to no connection,
\* closes none, changes neither the registry nor the tables and makes no
\* ChatService call; the session is at once back in its read loop, and no
\* write is ever attributed to that frame.
C20_UnknownIgnored ==
    [][\A c \in Conns :
          /\ (nread'[c] # nread[c] /\ msg'[c].type \notin KnownTypes) =>
               /\ UNCHANGED <<sent, closes, broken, connections, chats, messages>>
               /\ calls'[c] = 0
               /\ regMut'[c] = 0
               /\ pc'[c] = "read"
               /\ Active(c)'
          /\ (msg'[c] # NoFrame /\ msg'[c].type \notin KnownTypes) =>
               /\ pc'[c] = "read"
               /\ calls'[c] = 0
               /\ \A h \in Conns : WritesBy(h, c, nread[c])' = {}]_vars

\* Witness of C20: a session ignored a frame of unknown type, then read a
\* message, stored it and wrote its event to its own connection.
C20_Witness ==
    \E c \in Conns :
        /\ nread[c] = 2
        /\ prev[c] = "typing"
        /\ HandlerComplete(c)
        /\ outcome[c] = "fanout"
        /\ \A h \in Conns : WritesBy(h, c, 1) = {}
        /\ \E i \in WritesOf(c, c, 2, "new_message") : sent[c][i].ok

\* The positions at which a session is in SetWriteDeadline / WriteJSON on
\* conn[c]: the lookup is over and the write has not returned yet.
WritePcs == {"stu_write", "bc_write"}

\* C21 as stated: no two sessions are at the same time in a write on the
\* same connection.
C21_Original ==
    \A c, d \in Conns :
        (c # d /\ pc[c] \in WritePcs /\ pc[d] \in WritePcs) => conn[c] # conn[d]

\* C22: a connection on which Close() was called is not in the registry, and
\* was not in it when it was closed (its entry was removed or replaced
\* before); a connection enters the registry only in the one Register step
\* of its own session, which no session reaches twice, so that a removed
\* connection is never registered again.
C22_ClosedNotRegistered ==
    [][\A c \in Conns :
          /\ closes'[c] > 0 => ~Registered(c)'
          /\ closes'[c] > closes[c] => ~Registered(c)
          /\ (Registered(c)' /\ ~Registered(c)) =>
               /\ pc[c] = "register"
               /\ closes[c] = 0
          /\ pc'[c] = "register" => pc[c] \in {"new", "register"}]_vars

\* Witness of C22: a write of sendToUser failed, the entry was removed and
\* the connection closed, while another session's connection stays
\* registered.
C22_Witness ==
    \E c, d \in Conns :
        /\ c # d
        /\ closes[c] = 1
        /\ regMut[c] = 1
        /\ conn[c] = c
        /\ pc[c] = "read"
        /\ ~Registered(c)
        /\ Registered(d)

\* The two participants of a chat.
Participants(chatID) == {chats[chatID][1], chats[chatID][2]}

\* C23: every new_message event written to a connection carries a stored
\* message, and the connection belongs to a session registered under an id
\* that is a participant of the message's chat; the write is made on the
\* connection that the registry held for a participant of that chat at the
\* broadcast's lookup, after the row of the message was created.
C23_OnlyParticipants ==
    [][/\ \A h \in Conns :
            \A i \in DOMAIN sent'[h] :
                sent'[h][i].type = "new_message" =>
                    /\ sent'[h][i].id \in DOMAIN messages'
                    /\ currentUserID'[h]
                         \in Participants(messages'[sent'[h][i].id].chat_id)
       /\ \A c \in Conns :
            /\ (pc[c] = "bc_lookup" /\ Len(bc'[c]) > Len(bc[c])) =>
                 /\ bc'[c][Len(bc'[c])].target \in Participants(msg[c].chat_id)
                 /\ bc'[c][Len(bc'[c])].found
                      = IF bc'[c][Len(bc'[c])].target \in UserIds
                        THEN connections[bc'[c][Len(bc'[c])].target]
                        ELSE NoConn
            /\ (pc[c] = "bc_write" /\ pc'[c] # "bc_write") =>
                 /\ conn[c] = bc[c][Len(bc[c])].found
                 /\ sent'[conn[c]]
                      = Append(sent[conn[c]],
                               sent'[conn[c]][Len(sent'[conn[c]])])
                 /\ response[c] \in DOMAIN messages
                 /\ messages[response[c]].chat_id = msg[c].chat_id
                 /\ \A h \in Conns \ {conn[c]} : sent'[h] = sent[h]]_vars

\* Witness of C23: user 5 sent a message to the chat with user 9 while user
\* 7 was registered; it was written to user 5's connection, and user 7's
\* connection got nothing but its welcome message.
C23_Witness ==
    \E c, d \in Conns :
        /\ currentUserID[c] = 5
        /\ currentUserID[d] = 7
        /\ connections[7] = d
        /\ msg[c].chat_id = 2
        /\ BroadcastDone(c)
        /\ pc[c] = "read"
        /\ \E i \in WritesOf(c, c, 1, "new_message") : sent[c][i].ok
        /\ Len(sent[d]) = 1
        /\ sent[d][1].type = "connected"

====
